---- MODULE Spec2Model ----
(***************************************************************************)
(* hudhook: the hook lifecycle of src/lib.rs.                              *)
(*                                                                         *)
(* The state is the two `static mut OnceCell` slots MODULE and HOOKS, the  *)
(* CONSOLE_ALLOCATED atomic flag, and the position of every thread that    *)
(* runs code of the module: the loader thread inside DllMain, the install  *)
(* workers DllMain spawns, the host's render thread inside the render      *)
(* callback, and the eject workers lifecycle::eject spawns.                *)
(*                                                                         *)
(* The OnceCell slots are not synchronised (std::cell::OnceCell behind     *)
(* `static mut`), so a `set` is a read of the slot followed by a write and *)
(* a `take` is a read followed by a write of the empty cell; other threads *)
(* may run in between.  A thread that runs code of the module after        *)
(* FreeLibraryAndExitThread has unmapped it crashes the host.              *)
(***************************************************************************)
EXTENDS Integers, FiniteSets, Bags, TLC

\* Bounds of the model.
MaxInstall == 2     \* install workers DllMain can spawn (successful attaches)
MaxEject == 2       \* calls of lifecycle::eject
MaxThreads == 2     \* threads calling the console functions on their own
MaxCalls == 3       \* console functions those threads call

\* Program constants (windows::Win32::System::SystemServices).
DLL_PROCESS_ATTACH == 1
DLL_PROCESS_DETACH == 0

None == 0       \* an empty OnceCell (OnceCell::new(), Option::None); hooks are 1..
hmodule == 1    \* the HINSTANCE the loader passes to DllMain

Reasons == {DLL_PROCESS_ATTACH, DLL_PROCESS_DETACH}
ConsoleFns == {"alloc_console", "enable_console_colors", "free_console"}
ConsoleThreads == 1..MaxThreads \* threads that call the console functions
InstallIds == 1..MaxInstall     \* install workers; worker k builds hook instance k
HookIds == InstallIds

VARIABLES
    MODULE_SLOT,        \* global_state::MODULE : None or the module handle
    HOOKS,              \* global_state::HOOKS  : None or a hook instance
    CONSOLE_ALLOCATED,  \* utils::CONSOLE_ALLOCATED
    osConsole,          \* the process holds an OS console
    loaded,             \* the module's code is mapped in the host
    crashed,            \* a thread ran code of the module after it was unloaded
    loader,             \* the loader thread: [pc, reason]
    iw,                 \* install workers: k -> [pc, res]
    patched,            \* hook instances: h -> its patch is in the host's render call
    ew,                 \* eject workers: the bag of their [pc, hooks, module, res]
    render,             \* the render thread: [pc, h]
    con,                \* threads calling the console functions: t -> pc
    calls,              \* console functions called by those threads: fn -> count
    oscalls             \* OS console calls they issued: [alloc, free, mode]

vars == <<MODULE_SLOT, HOOKS, CONSOLE_ALLOCATED, osConsole, loaded, crashed, loader,
          iw, patched, ew, render, con, calls, oscalls>>

\* The module's code can run: it is mapped and the host has not crashed.
Running == loaded /\ ~crashed

Init ==
    /\ MODULE_SLOT = None
    /\ HOOKS = None
    /\ CONSOLE_ALLOCATED = FALSE
    /\ osConsole = FALSE
    /\ loaded = TRUE
    /\ crashed = FALSE
    /\ loader = [pc |-> "idle", reason |-> None]
    /\ iw = [k \in InstallIds |-> [pc |-> "none", res |-> "none"]]
    /\ patched = [h \in HookIds |-> FALSE]
    /\ ew = EmptyBag
    /\ render = [pc |-> "idle", h |-> None]
    /\ con = [t \in ConsoleThreads |-> "idle"]
    /\ calls = [fn \in ConsoleFns |-> 0]
    /\ oscalls = [alloc |-> 0, free |-> 0, mode |-> 0]

----------------------------------------------------------------------------
\* The loader thread: DllMain.

\* The loader calls DllMain(hmodule, reason, _).
DllMain(reason) ==
    /\ Running
    /\ loader.pc = "idle"
    /\ reason = DLL_PROCESS_ATTACH => \E k \in InstallIds : iw[k].pc = "none"
    /\ loader' = [pc |-> "DllMain", reason |-> reason]
    /\ UNCHANGED <<con, calls, oscalls, MODULE_SLOT, HOOKS, CONSOLE_ALLOCATED,
                   osConsole, loaded, crashed, iw, patched, ew, render>>

\* The reason test left out: set_module runs on every loader notification.
SetModuleCheck_AnyReason ==
    /\ Running
    /\ loader.pc = "DllMain"
    /\ loader' = [loader EXCEPT !.pc = IF MODULE_SLOT # None
                                        THEN "panicked"
                                        ELSE "set_module_write"]
    /\ UNCHANGED <<con, calls, oscalls, MODULE_SLOT, HOOKS, CONSOLE_ALLOCATED,
                   osConsole, loaded, crashed, iw, patched, ew, render>>

\* if reason == DLL_PROCESS_ATTACH { set_module(hmodule) ... }, else DllMain
\* returns.  set_module: MODULE.set(module) reads the slot; Err(..).unwrap() panics.
SetModuleCheck ==
    /\ Running
    /\ loader.pc = "DllMain"
    /\ loader' = IF loader.reason # DLL_PROCESS_ATTACH
                    THEN [pc |-> "idle", reason |-> None]
                    ELSE [loader EXCEPT !.pc = IF MODULE_SLOT # None
                                                 THEN "panicked"
                                                 ELSE "set_module_write"]
    /\ UNCHANGED <<con, calls, oscalls, MODULE_SLOT, HOOKS, CONSOLE_ALLOCATED,
                   osConsole, loaded, crashed, iw, patched, ew, render>>

\* set_module skipped over: the worker is spawned with the handle not recorded.
SetModuleWrite_NotRecorded ==
    /\ Running
    /\ loader.pc = "set_module_write"
    /\ loader' = [loader EXCEPT !.pc = "spawn"]
    /\ UNCHANGED <<con, calls, oscalls, MODULE_SLOT, HOOKS, CONSOLE_ALLOCATED,
                   osConsole, loaded, crashed, iw, patched, ew, render>>

\* set_module: the slot was read empty, the handle is written.
SetModuleWrite ==
    /\ Running
    /\ loader.pc = "set_module_write"
    /\ MODULE_SLOT' = hmodule
    /\ loader' = [loader EXCEPT !.pc = "spawn"]
    /\ UNCHANGED <<con, calls, oscalls, HOOKS, CONSOLE_ALLOCATED, osConsole,
                   loaded, crashed, iw, patched, ew, render>>

\* The install worker not spawned yet with the least index.
NextInstall == CHOOSE k \in InstallIds :
                  /\ iw[k].pc = "none"
                  /\ \A j \in InstallIds : j < k => iw[j].pc # "none"

\* thread::spawn(..).join(): DllMain waits for the install worker to finish.
SpawnInstall_Joins ==
    /\ Running
    /\ loader.pc = "spawn"
    /\ iw' = [iw EXCEPT ![NextInstall].pc = "hook"]
    /\ loader' = [loader EXCEPT !.pc = "join"]
    /\ UNCHANGED <<con, calls, oscalls, MODULE_SLOT, HOOKS, CONSOLE_ALLOCATED,
                   osConsole, loaded, crashed, patched, ew, render>>

\* std::thread::spawn of the install worker; DllMain returns.
SpawnInstall ==
    /\ Running
    /\ loader.pc = "spawn"
    /\ iw' = [iw EXCEPT ![NextInstall].pc = "hook"]
    /\ loader' = [pc |-> "idle", reason |-> None]
    /\ UNCHANGED <<con, calls, oscalls, MODULE_SLOT, HOOKS, CONSOLE_ALLOCATED,
                   osConsole, loaded, crashed, patched, ew, render>>

----------------------------------------------------------------------------
\* The install worker.

\* Hooks::hook of instance h with outcome ok: the host's render call is patched
\* when the install succeeds.
hookInstall(h, ok) == [patched EXCEPT ![h] = ok]

\* let hooks = { $hooks }; hooks.hook(); whatever hook() reports is not looked at.
Hook(k) ==
    /\ Running
    /\ iw[k].pc = "hook"
    /\ \E ok \in BOOLEAN :
          /\ patched' = hookInstall(k, ok)
          /\ iw' = [iw EXCEPT ![k] = [pc |-> "set_hooks",
                                      res |-> IF ok THEN "ok" ELSE "fail"]]
    /\ UNCHANGED <<con, calls, oscalls, MODULE_SLOT, HOOKS, CONSOLE_ALLOCATED,
                   osConsole, loaded, crashed, loader, ew, render>>

\* set_hooks: HOOKS.set(hooks) reads the slot; Err(hooks).ok() drops the hook.
SetHooksCheck(k) ==
    /\ Running
    /\ iw[k].pc = "set_hooks"
    /\ iw' = [iw EXCEPT ![k].pc = IF HOOKS # None THEN "dropped"
                                                  ELSE "set_hooks_write"]
    /\ UNCHANGED <<con, calls, oscalls, MODULE_SLOT, HOOKS, CONSOLE_ALLOCATED,
                   osConsole, loaded, crashed, loader, patched, ew, render>>

\* set_hooks: the slot was read empty, the hook is written.
SetHooksWrite(k) ==
    /\ Running
    /\ iw[k].pc = "set_hooks_write"
    /\ HOOKS' = k
    /\ iw' = [iw EXCEPT ![k].pc = "stored"]
    /\ UNCHANGED <<con, calls, oscalls, MODULE_SLOT, CONSOLE_ALLOCATED, osConsole,
                   loaded, crashed, loader, patched, ew, render>>

----------------------------------------------------------------------------
\* The render thread.

\* The host presents a frame; the patch of an installed hook h dispatches it to
\* the render loop.
RenderBegin(h) ==
    /\ Running
    /\ render.pc = "idle"
    /\ patched[h]
    /\ render' = [pc |-> "in_render", h |-> h]
    /\ UNCHANGED <<con, calls, oscalls, MODULE_SLOT, HOOKS, CONSOLE_ALLOCATED,
                   osConsole, loaded, crashed, loader, iw, patched, ew>>

\* The render callback returns to the host.
RenderEnd ==
    /\ Running
    /\ render.pc = "in_render"
    /\ render' = [pc |-> "idle", h |-> None]
    /\ UNCHANGED <<con, calls, oscalls, MODULE_SLOT, HOOKS, CONSOLE_ALLOCATED,
                   osConsole, loaded, crashed, loader, iw, patched, ew>>

\* alloc_console, called from the render loop: CONSOLE_ALLOCATED.swap(true) and,
\* when the flag was false, AllocConsole().
alloc_console ==
    /\ Running
    /\ render.pc = "in_render"
    /\ CONSOLE_ALLOCATED' = TRUE
    /\ osConsole' = (osConsole \/ ~CONSOLE_ALLOCATED)
    /\ UNCHANGED <<con, calls, oscalls, MODULE_SLOT, HOOKS, loaded, crashed,
                   loader, iw, patched, ew, render>>

\* An install worker is between its spawn and its end.
Installing == \E k \in InstallIds : iw[k].pc \in {"hook", "set_hooks", "set_hooks_write"}

\* The eject workers, each the state of one spawned thread.
Workers == BagToSet(ew)

\* Worker w takes a step to the state w2.
Step(w, w2) == ew' = (ew (-) SetToBag({w})) (+) SetToBag({w2})

\* Eject with the console freed by the caller before the worker is spawned.
Eject_FreesOnCaller ==
    /\ Running
    /\ render.pc = "in_render"
    /\ BagCardinality(ew) < MaxEject
    /\ CONSOLE_ALLOCATED' = FALSE
    /\ osConsole' = (osConsole /\ ~CONSOLE_ALLOCATED)
    /\ ew' = ew (+) SetToBag({[pc |-> "take_hooks", hooks |-> None,
                               module |-> None, res |-> "none"]})
    /\ UNCHANGED <<con, calls, oscalls, MODULE_SLOT, HOOKS, loaded, crashed,
                   loader, iw, patched, render>>

\* The closure reordered: the worker starts with MODULE.take() and the unload.
Eject_ModuleFirst ==
    /\ Running
    /\ render.pc = "in_render"
    /\ BagCardinality(ew) < MaxEject
    /\ ew' = ew (+) SetToBag({[pc |-> "take_module", hooks |-> None,
                                module |-> None, res |-> "none"]})
    /\ UNCHANGED <<con, calls, oscalls, MODULE_SLOT, HOOKS, CONSOLE_ALLOCATED,
                   osConsole, loaded, crashed, loader, iw, patched, render>>

\* lifecycle::eject, called from the render loop: thread::spawn of the worker.
Eject ==
    /\ Running
    /\ render.pc = "in_render"
    /\ BagCardinality(ew) < MaxEject
    /\ ew' = ew (+) SetToBag({[pc |-> "free_console", hooks |-> None,
                               module |-> None, res |-> "none"]})
    /\ UNCHANGED <<con, calls, oscalls, MODULE_SLOT, HOOKS, CONSOLE_ALLOCATED,
                   osConsole, loaded, crashed, loader, iw, patched, render>>

----------------------------------------------------------------------------
\* The eject worker.

\* free_console: CONSOLE_ALLOCATED.swap(false) and, when the flag was true,
\* FreeConsole().
free_console(w) ==
    /\ Running
    /\ w.pc = "free_console"
    /\ CONSOLE_ALLOCATED' = FALSE
    /\ osConsole' = (osConsole /\ ~CONSOLE_ALLOCATED)
    /\ Step(w, [w EXCEPT !.pc = "take_hooks"])
    /\ UNCHANGED <<con, calls, oscalls, MODULE_SLOT, HOOKS, loaded, crashed,
                   loader, iw, patched, render>>

\* HOOKS.take(): the slot is read.
TakeHooksRead(w) ==
    /\ Running
    /\ w.pc = "take_hooks"
    /\ Step(w, [w EXCEPT !.hooks = HOOKS, !.pc = "take_hooks_clear"])
    /\ UNCHANGED <<con, calls, oscalls, MODULE_SLOT, HOOKS, CONSOLE_ALLOCATED,
                   osConsole, loaded, crashed, loader, iw, patched, render>>

\* HOOKS.take(): the empty cell is written; `if let Some(mut hooks)`.
TakeHooksClear(w) ==
    /\ Running
    /\ w.pc = "take_hooks_clear"
    /\ HOOKS' = None
    /\ Step(w, [w EXCEPT !.pc = IF w.hooks # None THEN "unhook" ELSE "take_module"])
    /\ UNCHANGED <<con, calls, oscalls, MODULE_SLOT, CONSOLE_ALLOCATED, osConsole,
                   loaded, crashed, loader, iw, patched, render>>

\* Hooks::unhook of instance h confirms success only on an installed hook, whose
\* patch it then removes; on a hook that is not installed it signals an error.
unhookOk(h, ok) == ok /\ patched[h]

\* Hooks::unhook of instance h: the patches after the call.
hookUninstall(h, ok) == [patched EXCEPT ![h] = @ /\ ~unhookOk(h, ok)]

\* Unhook with the taken hook dropped and unhook() never called.
Unhook_Skipped(w) ==
    /\ Running
    /\ w.pc = "unhook"
    /\ Step(w, [w EXCEPT !.pc = "take_module"])
    /\ UNCHANGED <<con, calls, oscalls, MODULE_SLOT, HOOKS, CONSOLE_ALLOCATED,
                   osConsole, loaded, crashed, loader, iw, patched, render>>

\* hooks.unhook(); whatever it reports is not looked at.
Unhook(w) ==
    /\ Running
    /\ w.pc = "unhook"
    /\ \E ok \in BOOLEAN :
          /\ patched' = hookUninstall(w.hooks, ok)
          /\ Step(w, [w EXCEPT !.pc = "take_module",
                               !.res = IF unhookOk(w.hooks, ok) THEN "ok" ELSE "fail"])
    /\ UNCHANGED <<con, calls, oscalls, MODULE_SLOT, HOOKS, CONSOLE_ALLOCATED,
                   osConsole, loaded, crashed, loader, iw, render>>

\* MODULE.take(): the slot is read.
TakeModuleRead(w) ==
    /\ Running
    /\ w.pc = "take_module"
    /\ Step(w, [w EXCEPT !.module = MODULE_SLOT, !.pc = "take_module_clear"])
    /\ UNCHANGED <<con, calls, oscalls, MODULE_SLOT, HOOKS, CONSOLE_ALLOCATED,
                   osConsole, loaded, crashed, loader, iw, patched, render>>

\* MODULE.take(): the empty cell is written; `if let Some(module)`.
TakeModuleClear(w) ==
    /\ Running
    /\ w.pc = "take_module_clear"
    /\ MODULE_SLOT' = None
    /\ Step(w, [w EXCEPT !.pc = IF w.module # None THEN "unload" ELSE "done"])
    /\ UNCHANGED <<con, calls, oscalls, HOOKS, CONSOLE_ALLOCATED, osConsole,
                   loaded, crashed, loader, iw, patched, render>>

\* FreeLibraryAndExitThread(module, 0): the module is unmapped and the worker
\* thread ends in the same call.
Unload(w) ==
    /\ Running
    /\ w.pc = "unload"
    /\ loaded' = FALSE
    /\ Step(w, [w EXCEPT !.pc = "exited"])
    /\ UNCHANGED <<con, calls, oscalls, MODULE_SLOT, HOOKS, CONSOLE_ALLOCATED,
                   osConsole, crashed, loader, iw, patched, render>>

----------------------------------------------------------------------------
\* After the unload.

\* Some thread is still inside code of the module, or a patch still sends the
\* host's frames to it.
InModule ==
    \/ loader.pc \notin {"idle", "panicked"}
    \/ Installing
    \/ \E w \in Workers : w.pc \notin {"done", "exited"}
    \/ render.pc # "idle"
    \/ \E h \in HookIds : patched[h]

\* The module is unmapped while something still runs (or will run) its code.
Crash ==
    /\ ~loaded
    /\ ~crashed
    /\ InModule
    /\ crashed' = TRUE
    /\ UNCHANGED <<con, calls, oscalls, MODULE_SLOT, HOOKS, CONSOLE_ALLOCATED,
                   osConsole, loaded, loader, iw, patched, ew, render>>

----------------------------------------------------------------------------
Next ==
    \/ \E reason \in Reasons : DllMain(reason)
    \/ SetModuleCheck
    \/ SetModuleWrite
    \/ SpawnInstall
    \/ \E k \in InstallIds : Hook(k)
    \/ \E k \in InstallIds : SetHooksCheck(k)
    \/ \E k \in InstallIds : SetHooksWrite(k)
    \/ \E h \in HookIds : RenderBegin(h)
    \/ RenderEnd
    \/ alloc_console
    \/ Eject
    \/ \E w \in Workers : free_console(w)
    \/ \E w \in Workers : TakeHooksRead(w)
    \/ \E w \in Workers : TakeHooksClear(w)
    \/ \E w \in Workers : Unhook(w)
    \/ \E w \in Workers : TakeModuleRead(w)
    \/ \E w \in Workers : TakeModuleClear(w)
    \/ \E w \in Workers : Unload(w)
    \/ Crash

Spec == Init /\ [][Next]_vars

\* A step of some eject worker: the body of the closure eject() spawns.
EjectWorkerStep ==
    \E w \in Workers :
        \/ free_console(w)
        \/ TakeHooksRead(w)
        \/ TakeHooksClear(w)
        \/ Unhook(w)
        \/ TakeModuleRead(w)
        \/ TakeModuleClear(w)
        \/ Unload(w)

\* The eject workers are OS threads (thread::spawn) and none of their steps
\* blocks: the scheduler lets a worker that can step do so eventually.
SpecFair == Spec /\ WF_vars(EjectWorkerStep)

----------------------------------------------------------------------------
\* utils: the console functions called by threads of their own, each call in the
\* steps the code takes: the swap (or load) of CONSOLE_ALLOCATED, then the OS call.

lifecycleVars == <<MODULE_SLOT, HOOKS, loaded, crashed, loader, iw, patched, ew, render>>

\* Console functions called so far.
CallsMade == calls["alloc_console"] + calls["enable_console_colors"]
             + calls["free_console"]

\* No console call is in progress.
Quiet == \A t \in ConsoleThreads : con[t] = "idle"

\* Thread t calls console function fn.
ConsoleCall(t, fn) ==
    /\ con[t] = "idle"
    /\ CallsMade < MaxCalls
    /\ con' = [con EXCEPT ![t] = fn]
    /\ calls' = [calls EXCEPT ![fn] = @ + 1]
    /\ UNCHANGED <<CONSOLE_ALLOCATED, osConsole, oscalls, lifecycleVars>>

\* alloc_console with the swap's result not tested: AllocConsole on every call.
AllocSwap_Always(t) ==
    /\ con[t] = "alloc_console"
    /\ CONSOLE_ALLOCATED' = TRUE
    /\ con' = [con EXCEPT ![t] = "AllocConsole"]
    /\ UNCHANGED <<osConsole, calls, oscalls, lifecycleVars>>

\* alloc_console: if !CONSOLE_ALLOCATED.swap(true, SeqCst)
AllocSwap(t) ==
    /\ con[t] = "alloc_console"
    /\ CONSOLE_ALLOCATED' = TRUE
    /\ con' = [con EXCEPT ![t] = IF ~CONSOLE_ALLOCATED THEN "AllocConsole" ELSE "idle"]
    /\ UNCHANGED <<osConsole, calls, oscalls, lifecycleVars>>

\* alloc_console: AllocConsole(); the process has a console afterwards.
AllocOS(t) ==
    /\ con[t] = "AllocConsole"
    /\ osConsole' = TRUE
    /\ oscalls' = [oscalls EXCEPT !.alloc = @ + 1]
    /\ con' = [con EXCEPT ![t] = "idle"]
    /\ UNCHANGED <<CONSOLE_ALLOCATED, calls, lifecycleVars>>

\* enable_console_colors: if CONSOLE_ALLOCATED.load(SeqCst)
ColorsLoad(t) ==
    /\ con[t] = "enable_console_colors"
    /\ con' = [con EXCEPT ![t] = IF CONSOLE_ALLOCATED THEN "SetConsoleMode" ELSE "idle"]
    /\ UNCHANGED <<CONSOLE_ALLOCATED, osConsole, calls, oscalls, lifecycleVars>>

\* enable_console_colors: GetStdHandle, GetConsoleMode, SetConsoleMode, each
\* unwrapped: with no console the OS call fails and unwrap() panics.
ColorsSet(t) ==
    /\ con[t] = "SetConsoleMode"
    /\ oscalls' = [oscalls EXCEPT !.mode = IF osConsole THEN @ + 1 ELSE @]
    /\ con' = [con EXCEPT ![t] = IF osConsole THEN "idle" ELSE "panicked"]
    /\ UNCHANGED <<CONSOLE_ALLOCATED, osConsole, calls, lifecycleVars>>

\* free_console: if CONSOLE_ALLOCATED.swap(false, SeqCst)
FreeSwap(t) ==
    /\ con[t] = "free_console"
    /\ CONSOLE_ALLOCATED' = FALSE
    /\ con' = [con EXCEPT ![t] = IF CONSOLE_ALLOCATED THEN "FreeConsole" ELSE "idle"]
    /\ UNCHANGED <<osConsole, calls, oscalls, lifecycleVars>>

\* free_console: FreeConsole(); the process has no console afterwards.
FreeOS(t) ==
    /\ con[t] = "FreeConsole"
    /\ osConsole' = FALSE
    /\ oscalls' = [oscalls EXCEPT !.free = @ + 1]
    /\ con' = [con EXCEPT ![t] = "idle"]
    /\ UNCHANGED <<CONSOLE_ALLOCATED, calls, lifecycleVars>>

\* The console functions called from any thread at any time.
NextConsole ==
    \/ \E t \in ConsoleThreads, fn \in ConsoleFns : ConsoleCall(t, fn)
    \/ \E t \in ConsoleThreads : AllocSwap(t)
    \/ \E t \in ConsoleThreads : AllocOS(t)
    \/ \E t \in ConsoleThreads : ColorsLoad(t)
    \/ \E t \in ConsoleThreads : ColorsSet(t)
    \/ \E t \in ConsoleThreads : FreeSwap(t)
    \/ \E t \in ConsoleThreads : FreeOS(t)

SpecConsole == Init /\ [][NextConsole]_vars

\* The console functions called one after the other: a call starts only when no
\* other call is in progress.
NextConsoleSeq ==
    \/ \E t \in ConsoleThreads, fn \in ConsoleFns : Quiet /\ ConsoleCall(t, fn)
    \/ \E t \in ConsoleThreads : AllocSwap(t)
    \/ \E t \in ConsoleThreads : AllocOS(t)
    \/ \E t \in ConsoleThreads : ColorsLoad(t)
    \/ \E t \in ConsoleThreads : ColorsSet(t)
    \/ \E t \in ConsoleThreads : FreeSwap(t)
    \/ \E t \in ConsoleThreads : FreeOS(t)

SpecConsoleSeq == Init /\ [][NextConsoleSeq]_vars

----------------------------------------------------------------------------
\* What the claims speak of, read off the state.

\* Calls of set_module that stored the handle: each is followed by one spawn.
ModuleSets == Cardinality({k \in InstallIds : iw[k].pc # "none"})
                 + (IF loader.pc = "spawn" THEN 1 ELSE 0)

\* Calls of set_hooks that stored the hook.
HooksSets == Cardinality({k \in InstallIds : iw[k].pc = "stored"})

\* hook() has been called on instance h.
HookCalled(h) == iw[h].res # "none"

\* The eject workers that hold hook h and have returned from unhook().
Unhooked(h) == {w \in Workers : w.hooks = h /\ w.pc \in {"take_module",
                   "take_module_clear", "unload", "done", "exited"}}

\* Calls of unhook() on instance h.
UnhookCalls(h) == BagCardinality([w \in Unhooked(h) |-> ew[w]])

\* Calls of FreeLibraryAndExitThread.
Unloads == BagCardinality([w \in {x \in Workers : x.pc = "exited"} |-> ew[w]])

\* This step is the hook of instance h invoking the render loop.
RenderInvoked(h) == render.pc = "idle" /\ render'.pc = "in_render" /\ render'.h = h

\* This step is a call of lifecycle::eject.
EjectCalled == BagCardinality(ew') > BagCardinality(ew)

----------------------------------------------------------------------------
\* C1: set_module succeeds exactly once and set_hooks succeeds exactly once,
\* whatever the calls, eject's takes included. The code refutes it: a take
\* empties the slot and the next set succeeds again.
C1_SetOnce == ModuleSets <= 1 /\ HooksSets <= 1

\* C2: when the module is unloaded, every hook on which hook() was called has
\* had unhook() called on it, and never more than once. The code refutes it.
C2_UnhookedOnceBeforeUnload ==
    \A h \in HookIds :
        /\ UnhookCalls(h) <= 1
        /\ (~loaded /\ HookCalled(h)) => UnhookCalls(h) = 1

\* C3: two calls of eject lead to at most one unhook() call and at most one
\* self-unload. The code refutes it: both workers can read the hook out of HOOKS.
C3_EjectTwiceOneTeardown ==
    BagCardinality(ew) = 2 =>
        /\ \A h \in HookIds : UnhookCalls(h) <= 1
        /\ Unloads <= 1

C5_InstallBeforeActive == render.pc = "in_render" => HooksSets > 0

\* C6: when eject was called while the install worker had not finished, nothing
\* crashes (here with the render callback that called eject already returned).
\* The code refutes it: the module is unloaded under the install worker, with the
\* patch of its hook still in place.
C6_EarlyEjectNoCrash ==
    (Installing /\ ew # EmptyBag /\ render.pc = "idle") => ~crashed

\* C7: an eject worker whose unhook() did not confirm success does not go on to
\* FreeLibraryAndExitThread. The code refutes it: the outcome is not looked at.
C7_NoUnloadAfterFailedUnhook ==
    \A w \in Workers : w.res = "fail" => w.pc # "exited"

\* C8: HOOKS holds a hook only when its install succeeded. The code refutes it:
\* set_hooks is called whatever hook() reported.
C8_StoredOnlyIfInstalled == HOOKS # None => iw[HOOKS].res = "ok"

\* C9: a call of eject does none of the teardown on the calling thread: the
\* console flag, the console, both slots, the patches and the module are as they
\* were, the worker it spawned has taken no step, and the caller goes on in the
\* render callback without waiting.
C9_EjectDefers ==
    [][EjectCalled =>
          /\ UNCHANGED <<MODULE_SLOT, HOOKS, CONSOLE_ALLOCATED, osConsole, loaded,
                         crashed, patched, render>>
          /\ \E w \in BagToSet(ew') :
                /\ w.pc = "free_console"
                /\ CopiesIn(w, ew') = CopiesIn(w, ew) + 1]_vars

\* C9 witness: eject has been called with a console allocated and both slots
\* populated; the caller is still in the render callback and the worker has not
\* started.
C9_Witness ==
    /\ render.pc = "in_render"
    /\ CONSOLE_ALLOCATED
    /\ HOOKS # None
    /\ MODULE_SLOT # None
    /\ \E w \in Workers : w.pc = "free_console"

\* C10: a second attach notification spawns no second install worker, so hook()
\* is called at most once. The code refutes it once eject has emptied MODULE
\* (C1).
C10_OneInstall == Cardinality({k \in InstallIds : iw[k].pc # "none"}) <= 1

\* C11: whatever notifications the loader sends, DllMain returns normally: no
\* panic escapes it. The code refutes it: an attach that finds MODULE occupied
\* panics in set_module's unwrap(), inside DllMain.
C11_DllMainNeverPanics == loader.pc # "panicked"

\* C12: a notification whose reason is not attach changes nothing: the steps of
\* DllMain for it leave MODULE, HOOKS, the console flag and the console alone,
\* call neither hook() nor unhook(), spawn no worker, and DllMain returns.
C12_NonAttachNoEffect ==
    [][(/\ loader' # loader
        /\ \/ loader.pc = "DllMain" /\ loader.reason # DLL_PROCESS_ATTACH
           \/ loader'.pc = "DllMain" /\ loader'.reason # DLL_PROCESS_ATTACH)
       => /\ loader'.pc = (IF loader.pc = "idle" THEN "DllMain" ELSE "idle")
          /\ UNCHANGED <<MODULE_SLOT, HOOKS, CONSOLE_ALLOCATED, osConsole, loaded,
                         crashed, iw, patched, ew, render>>]_vars

\* C12 witness: a detach notification has arrived while both slots are populated,
\* a hook is active and the console is allocated.
C12_Witness ==
    /\ loader = [pc |-> "DllMain", reason |-> DLL_PROCESS_DETACH]
    /\ MODULE_SLOT # None /\ HOOKS # None /\ CONSOLE_ALLOCATED
    /\ \E h \in HookIds : patched[h]

\* C13: when eject has been called with the install complete (HOOKS holds hook h
\* and MODULE holds the handle), then with the eject workers scheduled fairly
\* unhook() is eventually called on h and FreeLibraryAndExitThread is invoked.
\* The code refutes it: of two eject workers one can unload the module while the
\* other, holding h, has not called unhook() yet.
C13_EjectCompletes ==
    \A h \in HookIds :
        (/\ Running /\ ~Installing
         /\ HOOKS = h /\ MODULE_SLOT = hmodule
         /\ \E w \in Workers : w.pc = "free_console")
        ~> (UnhookCalls(h) >= 1 /\ Unloads >= 1)

\* C14: with eject called only from inside the render callback, no eject worker
\* uninstalls a hook or unloads the module while a render callback (the calling
\* one included) is still executing. The code refutes it: the worker does not
\* wait for the callback to return.
C14_TeardownWaitsForRender ==
    [][render.pc = "in_render"
       => /\ loaded' = loaded
          /\ \A h \in HookIds : patched[h] => patched'[h]]_vars

\* The position an eject worker at position pc was at one step before.
StageBefore(pc) ==
    CASE pc = "take_hooks" -> {"free_console"}
      [] pc = "take_hooks_clear" -> {"take_hooks"}
      [] pc = "unhook" -> {"take_hooks_clear"}
      [] pc = "take_module" -> {"take_hooks_clear", "unhook"}
      [] pc = "take_module_clear" -> {"take_module"}
      [] pc \in {"unload", "done"} -> {"take_module_clear"}
      [] pc = "exited" -> {"unload"}
      [] OTHER -> {}

NoneTakingModule ==
    \A w \in Workers : w.pc \notin {"take_module_clear", "unload", "exited", "done"}

\* C16: on attach the handle is recorded in MODULE before the install worker is
\* spawned: the step that spawns a worker finds the handle recorded by this
\* DllMain call, and as long as no eject worker has got to taking MODULE, the
\* install workers, the render callback and the eject workers run with MODULE set.
C16_ModuleSetBeforeSpawn ==
    /\ [][(\E k \in InstallIds : iw[k].pc = "none" /\ iw'[k].pc # "none")
          => loader.pc = "spawn"]_vars
    /\ [](loader.pc = "spawn" /\ NoneTakingModule => MODULE_SLOT = hmodule)
    /\ []((/\ \/ \E k \in InstallIds : iw[k].pc # "none"
               \/ render.pc = "in_render"
               \/ Workers # {}
            /\ NoneTakingModule)
            => MODULE_SLOT = hmodule)

\* C16 witness: the install worker has been spawned and has not run yet, and the
\* handle is in MODULE.
C16_Witness ==
    /\ \E k \in InstallIds : iw[k].pc = "hook"
    /\ \A k \in InstallIds : iw[k].pc \in {"none", "hook"}
    /\ loader.pc = "idle"
    /\ MODULE_SLOT = hmodule

\* A step of the loader thread inside DllMain.
LoaderStep == SetModuleCheck \/ SetModuleWrite \/ SpawnInstall

\* C17: the attach handler does not wait for the install worker: the step that
\* spawns the worker returns from DllMain with the worker not started, and inside
\* DllMain the loader thread can always take its next step, whatever the install
\* workers are doing.
C17_AttachDoesNotWait ==
    /\ [][\A k \in InstallIds :
             iw[k].pc = "none" /\ iw'[k].pc # "none"
             => /\ loader' = [pc |-> "idle", reason |-> None]
                /\ iw'[k] = [pc |-> "hook", res |-> "none"]
                /\ UNCHANGED <<HOOKS, patched>>]_vars
    /\ [](Running /\ loader.pc \in {"DllMain", "set_module_write", "spawn"}
            => ENABLED LoaderStep)

\* C17 witness: DllMain has returned from an attach while the install worker it
\* spawned has not taken a step, with the module still loaded.
C17_Witness ==
    /\ loader = [pc |-> "idle", reason |-> None]
    /\ \E k \in InstallIds : iw[k] = [pc |-> "hook", res |-> "none"]
    /\ HOOKS = None /\ Running

\* Holders of hook h: the HOOKS slot, and each eject worker whose HOOKS.take()
\* has returned h and which has not dropped it yet.
HookHolders(h) ==
    (IF HOOKS = h THEN 1 ELSE 0)
    + BagCardinality([w \in {x \in Workers : x.pc = "unhook" /\ x.hooks = h} |-> ew[w]])

\* Holders of the module handle: the MODULE slot, and each eject worker whose
\* MODULE.take() has returned it and which has not passed it to the unload yet.
ModuleHolders ==
    (IF MODULE_SLOT = hmodule THEN 1 ELSE 0)
    + BagCardinality([w \in {x \in Workers : x.pc = "unload" /\ x.module = hmodule}
                        |-> ew[w]])

\* C18: a take moves the value out of its slot: no hook and no module handle is
\* ever held by the slot and a teardown worker at once, or by two teardown
\* workers. The code refutes it: the slots are unsynchronised, and two workers'
\* takes can both return the value.
C18_TakeMovesOwnership ==
    /\ \A h \in HookIds : HookHolders(h) <= 1
    /\ ModuleHolders <= 1

\* C19: in a sequential run the console functions are idempotent against the
\* flag: alloc_console calls AllocConsole exactly when its swap takes the flag
\* from false to true, free_console calls FreeConsole exactly when its swap takes
\* it from true to false, enable_console_colors touches the console exactly when
\* the flag is true and never changes the flag; an alloc_console (free_console)
\* that finds the flag set (clear) changes nothing.
C19_ConsoleIdempotent ==
    /\ [][\A t \in ConsoleThreads :
             /\ con[t] = "alloc_console" /\ con'[t] # con[t]
                   => /\ CONSOLE_ALLOCATED'
                      /\ con'[t] = (IF CONSOLE_ALLOCATED THEN "idle" ELSE "AllocConsole")
                      /\ CONSOLE_ALLOCATED => UNCHANGED <<osConsole, oscalls>>
             /\ con[t] = "AllocConsole" /\ con'[t] # con[t]
                   => /\ ~osConsole /\ osConsole' /\ CONSOLE_ALLOCATED'
                      /\ oscalls' = [oscalls EXCEPT !.alloc = @ + 1]
             /\ con[t] = "free_console" /\ con'[t] # con[t]
                   => /\ ~CONSOLE_ALLOCATED'
                      /\ con'[t] = (IF CONSOLE_ALLOCATED THEN "FreeConsole" ELSE "idle")
                      /\ ~CONSOLE_ALLOCATED => UNCHANGED <<osConsole, oscalls>>
             /\ con[t] = "FreeConsole" /\ con'[t] # con[t]
                   => /\ osConsole /\ ~osConsole' /\ ~CONSOLE_ALLOCATED'
                      /\ oscalls' = [oscalls EXCEPT !.free = @ + 1]
             /\ con[t] = "enable_console_colors" /\ con'[t] # con[t]
                   => /\ con'[t] = (IF CONSOLE_ALLOCATED THEN "SetConsoleMode" ELSE "idle")
                      /\ UNCHANGED <<CONSOLE_ALLOCATED, osConsole, oscalls>>
             /\ con[t] = "SetConsoleMode" /\ con'[t] # con[t]
                   => /\ con'[t] = "idle"
                      /\ oscalls' = [oscalls EXCEPT !.mode = @ + 1]
                      /\ UNCHANGED <<CONSOLE_ALLOCATED, osConsole>>]_vars
    /\ [](Quiet => /\ CONSOLE_ALLOCATED = osConsole
                    /\ oscalls.alloc = oscalls.free + (IF osConsole THEN 1 ELSE 0)
                    /\ oscalls.mode <= calls["enable_console_colors"])

\* C19 witness: alloc_console called twice and enable_console_colors once, one
\* after the other: one AllocConsole, one SetConsoleMode, the flag set.
C19_Witness ==
    /\ Quiet
    /\ calls["alloc_console"] = 2 /\ calls["enable_console_colors"] = 1
    /\ oscalls = [alloc |-> 1, free |-> 0, mode |-> 1]
    /\ CONSOLE_ALLOCATED /\ osConsole

\* C20: under any interleaving of console calls, whenever no call is in progress
\* the flag is true exactly when the process holds a console, and FreeConsole is
\* never issued before the AllocConsole it matches. The code refutes it: the swap
\* and the OS call are two steps, and a free_console can run between them.
C20_FlagMatchesConsole ==
    /\ Quiet => CONSOLE_ALLOCATED = osConsole
    /\ oscalls.free <= oscalls.alloc

====
